---- MODULE Spec2Model ----
(***************************************************************************)
(* Model of src/haoskiosk/kiosk_idle.py: the idle / first-touch swallow    *)
(* daemon.  The daemon is one sequential process (pc is its position);     *)
(* the X server and the user are the environment: they put events on the   *)
(* daemon's connection and let time pass.                                  *)
(*                                                                         *)
(* Time is a digital clock of whole seconds.  The daemon's computation     *)
(* takes no time; time passes only where the daemon blocks: in select()    *)
(* and in the settle sleep of wake_screen (0.05 s, which crosses at most   *)
(* one second boundary).                                                   *)
(*                                                                         *)
(* The connection is modelled as python-xlib implements it: xsock holds    *)
(* the events written to the socket and not yet read (select() looks at    *)
(* this), xqueue holds the events already read into the client-side event  *)
(* queue.  Every round trip (sync(), a reply()) and pending_events() moves *)
(* xsock to the end of xqueue.                                             *)
(***************************************************************************)
EXTENDS Integers, Sequences, FiniteSets, TLC

\* ---------------------------------------------------------------- bounds
MaxTime == 5
MaxInputs == 2

\* ------------------------------------------------------------- constants
None == -1
NoOverlay == 0
OverlayId == 1
SettleSlack == 1
MsPerSecond == 1000

\* ------------------------------------------------------------ event kinds
CoreKinds == {"KeyPress", "KeyRelease", "ButtonPress", "ButtonRelease", "MotionNotify"}

RawKinds == {"RawMotion", "RawKeyPress", "RawKeyRelease", "RawButtonPress",
             "RawButtonRelease", "RawTouchBegin", "RawTouchUpdate", "RawTouchEnd"}

RawWakeKinds == {"RawButtonPress", "RawTouchBegin", "RawKeyPress"}

\* An event without input meaning and without an evtype attribute, such as the
\* ConfigureNotify / MapNotify events that StructureNotifyMask on the root selects.
OtherKinds == {"StructureNotify"}

EventKinds == CoreKinds \cup RawKinds \cup OtherKinds

\* On the wire an event records its kind and whether the overlay window was mapped
\* on the server when the input happened (then the overlay received the input;
\* otherwise another surface, the root or the application, did).
XEvent(k, m) == [kind |-> k, onOverlay |-> m]

\* --------------------------------------------------------- configuration
\* SCREEN_TIMEOUT_ENV is the text of the environment variable: either a text for which
\* int(float(text)) raises, or a number, given in halves (5 is "2.5").
EnvTimeouts == {[valid |-> FALSE, halves |-> 0]} \cup
               {[valid |-> TRUE, halves |-> h] : h \in {-3, -1, 0, 1, 5}}

\* int(float(text)): truncation toward zero.
IntOfFloat(h) == IF h >= 0 THEN h \div 2 ELSE -((-h) \div 2)

NothingToManage_Strict(t) == t < 0

NothingToManage(t) == t <= 0

VARIABLES
  SCREEN_TIMEOUT_ENV, SWALLOW_FIRST_TOUCH, xlib_import_ok, SCREEN_TIMEOUT,
  pc, exit_code, exit_cause,
  overlay, blanked, last_activity, ss_available, xi2_raw_enabled,
  idle_sec, wait, wait_from, wi,
  now, xsock, xqueue, mapped, lastInput, delivered, dpms,
  trace, wakeEvent, batchWakes, batchTriggers, queried, degraded,
  lastDispatch

config == <<SCREEN_TIMEOUT_ENV, SWALLOW_FIRST_TOUCH, xlib_import_ok>>
daemon == <<overlay, blanked, last_activity, ss_available, xi2_raw_enabled>>
locals == <<idle_sec, wait, wait_from, wi>>
conn   == <<xsock, xqueue>>
server == <<mapped, lastInput, delivered, dpms>>
ghost  == <<trace, wakeEvent, batchWakes, batchTriggers, queried, degraded>>
batch  == <<lastDispatch>>
exits  == <<exit_code, exit_cause>>

vars == <<SCREEN_TIMEOUT_ENV, SWALLOW_FIRST_TOUCH, xlib_import_ok, SCREEN_TIMEOUT,
          pc, exit_code, exit_cause,
          overlay, blanked, last_activity, ss_available, xi2_raw_enabled,
          idle_sec, wait, wait_from, wi,
          now, xsock, xqueue, mapped, lastInput, delivered, dpms,
          trace, wakeEvent, batchWakes, batchTriggers, queried, degraded,
          lastDispatch>>

NoEvent == XEvent("none", FALSE)

Init ==
  /\ SCREEN_TIMEOUT_ENV \in EnvTimeouts
  /\ SWALLOW_FIRST_TOUCH \in BOOLEAN
  /\ xlib_import_ok \in BOOLEAN
  /\ SCREEN_TIMEOUT = 0
  /\ pc = "module"
  /\ exit_code = None
  /\ exit_cause = "none"
  /\ overlay = NoOverlay
  /\ blanked = FALSE
  /\ last_activity = 0
  /\ ss_available = FALSE
  /\ xi2_raw_enabled = FALSE
  /\ idle_sec = 0
  /\ wait = None
  /\ wait_from = 0
  /\ wi = 0
  /\ now = 0
  /\ xsock = <<>>
  /\ xqueue = <<>>
  /\ mapped = FALSE
  /\ lastInput = 0
  /\ delivered = 0
  /\ dpms = "on"
  /\ trace = <<>>
  /\ wakeEvent = NoEvent
  /\ batchWakes = 0
  /\ batchTriggers = 0
  /\ queried = FALSE
  /\ degraded = FALSE
  /\ lastDispatch = [kind |-> "none", action |-> "none"]

\* sys.exit(code), or the exit main() performs for an unhandled exception.
Exit(code, cause) ==
  /\ pc' = "exited"
  /\ exit_code' = code
  /\ exit_cause' = cause

\* ------------------------------------------------- module level, lines 44-68
ModuleLevel ==
  /\ pc = "module"
  /\ IF ~xlib_import_ok
       THEN Exit(1, "import") /\ UNCHANGED SCREEN_TIMEOUT
     ELSE IF ~SCREEN_TIMEOUT_ENV.valid
       THEN Exit(1, "invalid_timeout") /\ UNCHANGED SCREEN_TIMEOUT
     ELSE /\ SCREEN_TIMEOUT' = IntOfFloat(SCREEN_TIMEOUT_ENV.halves)
          /\ IF NothingToManage(SCREEN_TIMEOUT')
               THEN Exit(0, "noop_timeout")
             ELSE IF ~SWALLOW_FIRST_TOUCH
               THEN Exit(0, "noop_swallow")
             ELSE pc' = "main" /\ UNCHANGED exits
  /\ UNCHANGED <<config, daemon, locals, now, conn, server, ghost>>
  /\ UNCHANGED batch

\* self.timeout
timeout == SCREEN_TIMEOUT

\* ------------------------------------- IdleSwallowDaemon.__init__, lines 71-109
\* conn_ok: display.Display() connects; ss_ok: the first screensaver query answers;
\* xi_ok: the XI2 raw subscription is established (tried only without the extension).
DaemonInit ==
  /\ pc = "main"
  /\ \E conn_ok \in BOOLEAN, ss_ok \in BOOLEAN, xi_ok \in BOOLEAN :
       IF ~conn_ok
         THEN /\ Exit(1, "connection")
              /\ UNCHANGED <<daemon>>
         ELSE /\ overlay' = NoOverlay
              /\ blanked' = FALSE
              /\ last_activity' = now
              /\ ss_available' = ss_ok
              /\ xi2_raw_enabled' = (~ss_ok /\ xi_ok)
              /\ pc' = "loop"
              /\ UNCHANGED exits
  /\ UNCHANGED <<config, SCREEN_TIMEOUT, locals, now, conn, server, ghost>>
  /\ UNCHANGED batch

\* ------------------------------------------------------------ connection
\* A round trip (disp.sync(), request.reply()) and pending_events() read whatever is
\* on the socket into the client-side event queue.
ReadSocket ==
  /\ xqueue' = xqueue \o xsock
  /\ xsock' = <<>>

Connected == pc \in {"loop", "blank", "poweroff", "select", "process", "wake"}

\* ------------------------------------------- get_idle_seconds, lines 177-188
ShouldQuery_Always(ss) == TRUE

ShouldQuery(ss) == ss

\* The server's idle counter, in milliseconds since the last input anywhere.
ServerIdleMs == (now - lastInput) * MsPerSecond

PlatformIdle(ms) == ms \div MsPerSecond

FallbackIdle_Zero(t, la) == 0

FallbackIdle(t, la) == IF t - la > 0 THEN t - la ELSE 0

\* ok: the screensaver query answers (only meaningful when the query is issued).
GetIdleSeconds(ok) ==
  IF ShouldQuery(ss_available)
    THEN /\ queried' = TRUE
         /\ ReadSocket
         /\ IF ok
              THEN /\ idle_sec' = PlatformIdle(ServerIdleMs)
                   /\ UNCHANGED <<ss_available, degraded>>
              ELSE /\ ss_available' = FALSE
                   /\ degraded' = TRUE
                   /\ idle_sec' = FallbackIdle(now, last_activity)
    ELSE /\ queried' = FALSE
         /\ idle_sec' = FallbackIdle(now, last_activity)
         /\ UNCHANGED <<ss_available, conn, degraded>>

\* ------------------------------------------- run, lines 250-260: one evaluation
RunEvaluate ==
  /\ pc = "loop"
  /\ IF blanked
       THEN /\ wait' = None
            /\ wait_from' = now
            /\ pc' = "select"
            /\ UNCHANGED <<idle_sec, ss_available, conn, queried, degraded>>
       ELSE /\ \E ok \in (IF ShouldQuery(ss_available) THEN BOOLEAN ELSE {TRUE}) :
                 GetIdleSeconds(ok)
            /\ LET remaining == timeout - idle_sec'
               IN  IF remaining <= 0
                     THEN /\ pc' = "blank"
                          /\ UNCHANGED <<wait, wait_from>>
                     ELSE /\ wait' = remaining
                          /\ wait_from' = now
                          /\ pc' = "select"
  /\ UNCHANGED <<config, SCREEN_TIMEOUT, exits, overlay, blanked, last_activity,
                 xi2_raw_enabled, wi, now, server,
                 trace, wakeEvent, batchWakes, batchTriggers>>
  /\ UNCHANGED batch

\* --------------- blank_screen, lines 156-159, with create_overlay, lines 119-139
\* ok: create_window / map / sync go through.  They are not guarded by a try, so an
\* exception leaves run() and main() exits with status 1 (lines 274-276); the server
\* reclaims the window when the connection goes away.
BlankCreateOverlay ==
  /\ pc = "blank"
  /\ IF blanked
       THEN /\ pc' = "select"
            /\ wait' = None
            /\ wait_from' = now
            /\ UNCHANGED <<exits, overlay, conn, mapped, trace>>
     ELSE IF overlay # NoOverlay
       THEN /\ pc' = "poweroff"
            /\ UNCHANGED <<exits, overlay, conn, mapped, trace, wait, wait_from>>
     ELSE \E ok \in BOOLEAN :
            IF ok
              THEN /\ mapped' = TRUE
                   /\ ReadSocket
                   /\ overlay' = OverlayId
                   /\ trace' = Append(trace, "create")
                   /\ pc' = "poweroff"
                   /\ UNCHANGED <<exits, wait, wait_from>>
              ELSE /\ Exit(1, "unhandled")
                   /\ mapped' = FALSE
                   /\ UNCHANGED <<overlay, conn, trace, wait, wait_from>>
  /\ UNCHANGED <<config, SCREEN_TIMEOUT, blanked, last_activity, ss_available,
                 xi2_raw_enabled, idle_sec, wi, now, lastInput, delivered, dpms,
                 wakeEvent, batchWakes, batchTriggers, queried, degraded>>
  /\ UNCHANGED batch

\* ------------- blank_screen, lines 160-163, and run, line 256 (timeout = None)
\* ok: the xset command takes effect; _run swallows its failure (lines 112-116).
BlankPowerOff_NoFlag ==
  /\ pc = "poweroff"
  /\ \E ok \in BOOLEAN : dpms' = IF ok THEN "off" ELSE dpms
  /\ trace' = Append(trace, "off")
  /\ blanked' = blanked
  /\ wait' = None
  /\ wait_from' = now
  /\ pc' = "select"
  /\ UNCHANGED <<config, SCREEN_TIMEOUT, exits, overlay, last_activity, ss_available,
                 xi2_raw_enabled, idle_sec, wi, now, conn, mapped, lastInput, delivered,
                 wakeEvent, batchWakes, batchTriggers, queried, degraded>>
  /\ UNCHANGED batch

BlankPowerOff_Poll ==
  /\ pc = "poweroff"
  /\ \E ok \in BOOLEAN : dpms' = IF ok THEN "off" ELSE dpms
  /\ trace' = Append(trace, "off")
  /\ blanked' = TRUE
  /\ wait' = timeout
  /\ wait_from' = now
  /\ pc' = "select"
  /\ UNCHANGED <<config, SCREEN_TIMEOUT, exits, overlay, last_activity, ss_available,
                 xi2_raw_enabled, idle_sec, wi, now, conn, mapped, lastInput, delivered,
                 wakeEvent, batchWakes, batchTriggers, queried, degraded>>
  /\ UNCHANGED batch

BlankPowerOff ==
  /\ pc = "poweroff"
  /\ \E ok \in BOOLEAN : dpms' = IF ok THEN "off" ELSE dpms
  /\ trace' = Append(trace, "off")
  /\ blanked' = TRUE
  /\ wait' = None
  /\ wait_from' = now
  /\ pc' = "select"
  /\ UNCHANGED <<config, SCREEN_TIMEOUT, exits, overlay, last_activity, ss_available,
                 xi2_raw_enabled, idle_sec, wi, now, conn, mapped, lastInput, delivered,
                 wakeEvent, batchWakes, batchTriggers, queried, degraded>>
  /\ UNCHANGED batch

\* ------------------------------------------------ select, lines 261-265
\* select() returns the descriptor as soon as the socket holds unread data.
SelectReadable ==
  /\ pc = "select"
  /\ xsock # <<>>
  /\ pc' = "process"
  /\ batchWakes' = 0
  /\ batchTriggers' = 0
  /\ UNCHANGED <<config, SCREEN_TIMEOUT, exits, daemon, locals, now, conn, server,
                 trace, wakeEvent, queried, degraded>>
  /\ UNCHANGED batch

\* select() returns empty when the timeout elapses with nothing to read; never when
\* the timeout is None.
SelectTimeout ==
  /\ pc = "select"
  /\ xsock = <<>>
  /\ wait # None
  /\ now >= wait_from + wait
  /\ pc' = "loop"
  /\ UNCHANGED <<config, SCREEN_TIMEOUT, exits, daemon, locals, now, conn, server, ghost>>
  /\ UNCHANGED batch

\* ------------------------------------------- process_events, lines 191-244
\* Line 213: the event is one of the five core input events.
IsCore(k) == k \in CoreKinds

\* Line 227: the XI2 branch is taken for an event that carries evtype, when the raw
\* subscription was established.
IsRawHandled(k, raw_enabled) == raw_enabled /\ k \in RawKinds

\* Lines 214 and 234: the event wakes a blanked daemon (swallow_if_blanked is True
\* at the only call, line 265).
IsWakeTrigger(k, raw_enabled) ==
  \/ IsCore(k)
  \/ (IsRawHandled(k, raw_enabled) /\ k \in RawWakeKinds)

\* Lines 213-243: what process_events does with one event, named as log_event names
\* it ("wake+swallow", "activity-update", "seen-no-update"); "ignored" is an event that
\* enters neither branch.  b: self.blanked (wake_screen, line 166, tests it again);
\* ss: self.ss_available; raw_enabled: self.xi2_raw_enabled.
EventAction_IgnoreBlanked(b, ss, k, raw_enabled) ==
  IF IsCore(k) \/ IsRawHandled(k, raw_enabled)
    THEN IF IsWakeTrigger(k, raw_enabled) THEN "wake+swallow"
         ELSE IF ~ss THEN "activity-update" ELSE "seen-no-update"
    ELSE "ignored"

EventAction_RawWakesAll(b, ss, k, raw_enabled) ==
  IF IsCore(k) \/ IsRawHandled(k, raw_enabled)
    THEN IF b /\ (IsCore(k) \/ IsRawHandled(k, raw_enabled)) THEN "wake+swallow"
         ELSE IF ~ss THEN "activity-update" ELSE "seen-no-update"
    ELSE "ignored"

EventAction_CoreOnlyActivity(b, ss, k, raw_enabled) ==
  IF IsCore(k) \/ IsRawHandled(k, raw_enabled)
    THEN IF b /\ IsWakeTrigger(k, raw_enabled) THEN "wake+swallow"
         ELSE IF ~ss /\ IsCore(k) THEN "activity-update" ELSE "seen-no-update"
    ELSE "ignored"

EventAction_CoreNeedsRaw(b, ss, k, raw_enabled) ==
  IF (raw_enabled /\ IsCore(k)) \/ IsRawHandled(k, raw_enabled)
    THEN IF b /\ IsWakeTrigger(k, raw_enabled) THEN "wake+swallow"
         ELSE IF ~ss THEN "activity-update" ELSE "seen-no-update"
    ELSE "ignored"

EventAction(b, ss, k, raw_enabled) ==
  IF IsCore(k) \/ IsRawHandled(k, raw_enabled)
    THEN IF b /\ IsWakeTrigger(k, raw_enabled) THEN "wake+swallow"
         ELSE IF ~ss THEN "activity-update" ELSE "seen-no-update"
    ELSE "ignored"

\* What the loop has just dispatched: the event's kind and what was done with it.
Dispatched(k, a) == [kind |-> k, action |-> a]

NoDispatch == Dispatched("none", "none")

\* One turn of the while loop: pending_events() reads the socket; with nothing queued
\* process_events returns to run; otherwise next_event() is dispatched.
ProcessEvents ==
  /\ pc = "process"
  /\ LET q == xqueue \o xsock
     IN  IF q = <<>>
           THEN /\ pc' = "loop"
                /\ lastDispatch' = NoDispatch
                /\ UNCHANGED <<conn, last_activity, wi, trace, wakeEvent,
                               batchWakes, batchTriggers>>
           ELSE LET ev == Head(q)
                    act == EventAction(blanked, ss_available, ev.kind, xi2_raw_enabled)
                IN  /\ xqueue' = Tail(q)
                    /\ xsock' = <<>>
                    /\ lastDispatch' = Dispatched(ev.kind, act)
                    /\ batchTriggers' = batchTriggers +
                         (IF IsWakeTrigger(ev.kind, xi2_raw_enabled) THEN 1 ELSE 0)
                    /\ IF act = "wake+swallow"
                         THEN /\ pc' = "wake"
                              /\ wi' = 1
                              /\ trace' = <<>>
                              /\ wakeEvent' = ev
                              /\ batchWakes' = batchWakes + 1
                              /\ UNCHANGED last_activity
                         ELSE /\ last_activity' =
                                   IF act = "activity-update" THEN now ELSE last_activity
                              /\ pc' = "process"
                              /\ UNCHANGED <<wi, trace, wakeEvent, batchWakes>>
  /\ UNCHANGED <<config, SCREEN_TIMEOUT, exits, overlay, blanked, ss_available,
                 xi2_raw_enabled, idle_sec, wait, wait_from, now, server, queried, degraded>>

\* ---------------------------------------------- wake_screen, lines 165-174
\* The statements of wake_screen after its guard, in program order.
WakeOrder_DestroyFirst ==
  <<"destroy", "power_on", "settle", "unblank", "reset_activity">>

WakeOrder_NoUnblank == <<"power_on", "settle", "destroy", "reset_activity">>

WakeOrder_RetryPowerOn ==
  <<"power_on", "power_on", "settle", "destroy", "unblank", "reset_activity">>

WakeOrder == <<"power_on", "settle", "destroy", "unblank", "reset_activity">>

\* destroy_overlay, lines 141-153: the handle after the attempt (the finally clause).
HandleAfterDestroy_KeepOnFailure(ok) == IF ok THEN NoOverlay ELSE overlay

HandleAfterDestroy(ok) == NoOverlay

\* One statement of wake_screen.  ok: the external command, or the unmap / destroy /
\* sync, goes through; unmapped: a failed destroy still took the window off the
\* screen; d: the second boundaries the settle sleep crosses.
WakeStep ==
  /\ pc = "wake"
  /\ LET op == WakeOrder[wi]
     IN  /\ \E ok \in BOOLEAN, unmapped \in BOOLEAN, d \in 0..SettleSlack :
               /\ dpms' = IF op = "power_on" /\ ok THEN "on" ELSE dpms
               /\ now' = IF op = "settle" THEN now + d ELSE now
               /\ now' <= MaxTime
               /\ IF op = "destroy" /\ overlay # NoOverlay
                    THEN /\ overlay' = HandleAfterDestroy(ok)
                         /\ mapped' = IF ok \/ unmapped THEN FALSE ELSE mapped
                         /\ IF ok THEN ReadSocket ELSE UNCHANGED conn
                    ELSE UNCHANGED <<overlay, mapped, conn>>
         /\ blanked' = IF op = "unblank" THEN FALSE ELSE blanked
         /\ last_activity' = IF op = "reset_activity" THEN now ELSE last_activity
         /\ trace' = Append(trace, op)
  /\ IF wi = Len(WakeOrder)
       THEN pc' = "process" /\ wi' = 0
       ELSE pc' = "wake" /\ wi' = wi + 1
  /\ UNCHANGED <<config, SCREEN_TIMEOUT, exits, ss_available, xi2_raw_enabled,
                 idle_sec, wait, wait_from, lastInput, delivered,
                 wakeEvent, batchWakes, batchTriggers, queried, degraded>>
  /\ UNCHANGED batch

\* ------------------------------------------------------------ environment
\* The kinds of event the server sends to this connection: the core events selected
\* on the root (lines 76-78) and on the overlay (line 133), structure events of the
\* root, and the raw events once subscribed (lines 97-104).
Subscribed(k) == k \in RawKinds => xi2_raw_enabled

\* The server writes an event to the connection.
Deliver ==
  /\ Connected
  /\ delivered < MaxInputs
  /\ \E k \in EventKinds :
       /\ Subscribed(k)
       /\ xsock' = Append(xsock, XEvent(k, mapped))
       /\ lastInput' = IF k \in OtherKinds THEN lastInput ELSE now
  /\ delivered' = delivered + 1
  /\ UNCHANGED <<config, SCREEN_TIMEOUT, pc, exits, daemon, locals, now, xqueue,
                 mapped, dpms, ghost>>
  /\ UNCHANGED batch

\* The user acts on the application; nothing is sent to this connection.
UnseenInput ==
  /\ Connected
  /\ ~mapped
  /\ delivered < MaxInputs
  /\ lastInput < now
  /\ lastInput' = now
  /\ delivered' = delivered + 1
  /\ UNCHANGED <<config, SCREEN_TIMEOUT, pc, exits, daemon, locals, now, conn,
                 mapped, dpms, ghost>>
  /\ UNCHANGED batch

\* A second passes while the daemon is blocked in select().
Tick ==
  /\ pc = "select"
  /\ xsock = <<>>
  /\ wait = None \/ now < wait_from + wait
  /\ now < MaxTime
  /\ now' = now + 1
  /\ UNCHANGED <<config, SCREEN_TIMEOUT, pc, exits, daemon, locals, conn, server, ghost>>
  /\ UNCHANGED batch

Next ==
  \/ ModuleLevel
  \/ DaemonInit
  \/ RunEvaluate
  \/ BlankCreateOverlay
  \/ BlankPowerOff
  \/ SelectReadable
  \/ SelectTimeout
  \/ ProcessEvents
  \/ WakeStep
  \/ Deliver
  \/ UnseenInput
  \/ Tick

Spec == Init /\ [][Next]_vars

\* ================================================================ claims

\* The number of times x occurs in the sequence s.
Count(s, x) == Cardinality({i \in 1..Len(s) : s[i] = x})

\* The daemon is at a point where the main loop is about to evaluate, to block in
\* select(), or to dispatch the next drained event.
AtLoopPoint == pc \in {"loop", "select", "process"}

\* C1: whenever the main loop is about to block in its wait or to dispatch the next
\* drained event, the overlay handle is present if and only if blanked is true.
C1_OverlayIffBlanked == AtLoopPoint => ((overlay # NoOverlay) <=> blanked)

\* The daemon waits Blanked for the second time: a blank, a wake and a blank are done.
C1_Witness ==
  /\ pc = "select"
  /\ blanked
  /\ overlay # NoOverlay
  /\ Count(trace, "destroy") = 1
  /\ Count(trace, "create") = 1

\* C2: the event that triggers a Blanked->Awake transition was delivered while the
\* overlay was mapped, so no surface other than the overlay received it.
C2_WakeEventOnOverlay == wakeEvent # NoEvent => wakeEvent.onOverlay

\* C3: while the daemon is Awake, the time since the last real input never exceeds
\* timeout plus the scheduling slack (here the settle sleep): it has blanked by then.
C3_BlankWithinTimeout ==
  (Connected /\ ~blanked) => now - lastInput <= timeout + SettleSlack

\* C4: in one drained batch at most one event causes the Blanked->Awake transition;
\* once it has, the rest of the batch is dispatched with the daemon Awake.
C4_OneWakePerBatch ==
  /\ batchWakes <= 1
  /\ (pc = "process" /\ batchWakes = 1) => (~blanked /\ Count(trace, "power_on") = 1
                                             /\ Count(trace, "destroy") = 1)

\* A batch in which two qualifying events were dispatched and one wake happened.
C4_Witness ==
  /\ pc = "process"
  /\ batchWakes = 1
  /\ batchTriggers >= 2
  /\ xqueue = <<>>

\* The daemon has finished __init__.
Started == pc \notin {"module", "main"}

\* The step is one idle evaluation of run (get_idle_seconds is called).
IdleEvaluation == pc = "loop" /\ ~blanked /\ pc' # "loop"

\* C5: once ss_available is false after startup it never becomes true again, and no
\* later idle evaluation issues the platform query.
C5_FallbackMonotonic ==
  [][(Started /\ ~ss_available) =>
       (~ss_available' /\ (IdleEvaluation => ~queried'))]_vars

\* After a runtime degradation, a later idle evaluation has used the fallback.
C5_Witness ==
  /\ degraded
  /\ ~ss_available
  /\ ~queried
  /\ pc = "select"

\* C6: after startup no error terminates the daemon; the only fatal failure is the
\* initial display connection.
C6_NoRuntimeTermination == exit_cause # "unhandled"

\* C7: between two wakes the overlay is created at most once and the power-off command
\* is issued at most once, and exactly once each whenever the loop finds the daemon
\* Blanked, however many iterations have followed the blank.
C7_BlankOnce ==
  /\ Count(trace, "create") <= 1
  /\ Count(trace, "off") <= 1
  /\ (AtLoopPoint /\ blanked) => (Count(trace, "create") = 1 /\ Count(trace, "off") = 1)

\* A loop iteration that starts with the daemon already Blanked.
C7_Witness ==
  /\ pc = "loop"
  /\ blanked
  /\ Count(trace, "off") = 1

\* C8: an idle evaluation that fails its query after startup, and every evaluation
\* after it, returns max(0, now - last_activity) and leaves blanked and the overlay
\* as they were.
C8_FallbackFormula ==
  [][(IdleEvaluation /\ degraded') =>
       /\ idle_sec' = (IF now - last_activity > 0 THEN now - last_activity ELSE 0)
       /\ blanked' = blanked
       /\ overlay' = overlay]_vars

\* After a runtime degradation an evaluation found a positive fallback idle time.
C8_Witness ==
  /\ degraded
  /\ pc \in {"select", "blank"}
  /\ idle_sec > 0
  /\ idle_sec = now - last_activity

\* The configured timeout is a number <= 0.
ConfiguredNonPositive == SCREEN_TIMEOUT_ENV.valid /\ SCREEN_TIMEOUT_ENV.halves <= 0

\* The daemon has exited with status 0 and has set nothing up.
NoopExit ==
  /\ pc = "exited"
  /\ exit_code = 0
  /\ overlay = NoOverlay
  /\ ~mapped
  /\ dpms = "on"
  /\ trace = <<>>

ClaimedWakeOrder == <<"power_on", "settle", "destroy", "unblank", "reset_activity">>

\* C10: the steps of every Wake happen in the order power-on, settle, destroy, unblank,
\* reset of last_activity; the overlay is never removed before the power-on command.
C10_WakeOrder ==
  wakeEvent # NoEvent =>
    LET n == IF Len(trace) < Len(ClaimedWakeOrder) THEN Len(trace)
             ELSE Len(ClaimedWakeOrder)
    IN  /\ SubSeq(trace, 1, n) = SubSeq(ClaimedWakeOrder, 1, n)
        /\ pc # "wake" => n = Len(ClaimedWakeOrder)
        /\ (pc = "wake" /\ overlay = NoOverlay) => Count(trace, "power_on") = 1
        /\ (pc = "wake" /\ ~blanked) => overlay = NoOverlay

\* A Wake has run to its end.
C10_Witness ==
  /\ pc = "process"
  /\ wakeEvent # NoEvent
  /\ trace = ClaimedWakeOrder
  /\ ~blanked
  /\ last_activity = now

\* The step dispatches the next drained event: process_events takes it off the queue.
Dispatching ==
  /\ pc = "process"
  /\ xqueue \o xsock # <<>>
  /\ xqueue' = Tail(xqueue \o xsock)
  /\ xsock' = <<>>

\* The kind of the event a Dispatching step handles.
DispatchedKind == Head(xqueue \o xsock).kind

\* C11: dispatching an event while Awake leaves blanked, the overlay (handle and
\* window) and the display power state as they are and issues no command; blanked
\* changes only inside blank_screen and wake_screen.
C11_AwakeDispatchIsActivity ==
  [][/\ (Dispatching /\ ~blanked) =>
          /\ blanked' = blanked
          /\ overlay' = overlay
          /\ mapped' = mapped
          /\ dpms' = dpms
          /\ trace' = trace
          /\ pc' = "process"
     /\ (blanked' # blanked) => pc \in {"poweroff", "wake"}]_vars

\* A ButtonPress dispatched as ordinary activity right after the wake of its batch.
C11_Witness ==
  /\ pc = "process"
  /\ ~blanked
  /\ batchWakes = 1
  /\ lastDispatch.kind = "ButtonPress"
  /\ lastDispatch.action \in {"activity-update", "seen-no-update"}

\* The raw kinds the claim says never wake.
QuietRawKinds == {"RawMotion", "RawKeyRelease", "RawButtonRelease", "RawTouchUpdate",
                  "RawTouchEnd"}

\* C12: dispatching RawMotion, RawKeyRelease, RawButtonRelease, RawTouchUpdate or
\* RawTouchEnd while Blanked leaves the daemon Blanked with its overlay and issues no
\* power-on; every wake is triggered by a core event, RawButtonPress, RawTouchBegin or
\* RawKeyPress.
C12_QuietRawNeverWakes ==
  /\ [][(Dispatching /\ blanked /\ DispatchedKind \in QuietRawKinds) =>
          /\ blanked'
          /\ overlay' = overlay
          /\ overlay' # NoOverlay
          /\ dpms' = dpms
          /\ trace' = trace
          /\ pc' = "process"]_vars
  /\ [](wakeEvent.kind \in {"none", "KeyPress", "KeyRelease", "ButtonPress",
                            "ButtonRelease", "MotionNotify", "RawButtonPress",
                            "RawTouchBegin", "RawKeyPress"})

\* A raw motion / release / touch update has been dispatched and the daemon is still
\* Blanked.
C12_Witness ==
  /\ pc = "process"
  /\ blanked
  /\ overlay # NoOverlay
  /\ lastDispatch.kind \in QuietRawKinds
  /\ lastDispatch.action \in {"activity-update", "seen-no-update"}

\* C13 as stated: while Awake on the fallback path every dispatched event, whatever
\* its kind, sets last_activity to the current time.
C13_EveryEventIsActivity_Original ==
  [][(Dispatching /\ ~blanked /\ ~ss_available) => last_activity' = now]_vars

\* C13 amended: while Awake on the fallback path a dispatched core input event, and a
\* raw event when the raw subscription was established, sets last_activity to the
\* current time; any other event leaves last_activity as it was.
C13_InputEventIsActivity ==
  [][(Dispatching /\ ~blanked /\ ~ss_available) =>
       last_activity' =
         IF \/ DispatchedKind \in {"KeyPress", "KeyRelease", "ButtonPress",
                                   "ButtonRelease", "MotionNotify"}
            \/ (xi2_raw_enabled /\ DispatchedKind \in RawKinds)
           THEN now
           ELSE last_activity]_vars

\* A raw event dispatched while Awake on the fallback path moved last_activity.
C13_Witness ==
  /\ pc = "process"
  /\ ~blanked
  /\ ~ss_available
  /\ lastDispatch.kind \in RawKinds
  /\ lastDispatch.action = "activity-update"
  /\ last_activity = now
  /\ now > 0

\* C14: while Blanked the wait is unbounded; a loop iteration that starts Blanked
\* queries no idle time and issues no command; the daemon leaves the wait only
\* because the connection is readable.
C14_NoPollingWhileBlanked ==
  /\ []((pc = "select" /\ blanked) => wait = None)
  /\ [][(pc = "loop" /\ blanked) =>
          /\ idle_sec' = idle_sec
          /\ queried' = queried
          /\ ss_available' = ss_available
          /\ trace' = trace
          /\ dpms' = dpms
          /\ pc' \in {"loop", "select"}]_vars
  /\ [][(pc = "select" /\ blanked /\ pc' # "select") =>
          (xsock # <<>> /\ pc' = "process")]_vars

\* The daemon has been waiting Blanked for longer than the timeout.
C14_Witness ==
  /\ pc = "select"
  /\ blanked
  /\ wait = None
  /\ now > wait_from + timeout

DestroyAttempt == pc = "wake" /\ trace' = Append(trace, "destroy")

C16_DestroyFailureSafe ==
  /\ [][DestroyAttempt =>
          /\ overlay' = NoOverlay
          /\ blanked' = blanked
          /\ pc' = "wake"
          /\ (overlay = NoOverlay => (mapped' = mapped /\ xsock' = xsock /\ xqueue' = xqueue))]_vars
  /\ [][(pc = "wake" /\ pc' # "wake") =>
          (pc' = "process" /\ ~blanked' /\ overlay' = NoOverlay)]_vars
  /\ []((trace = ClaimedWakeOrder /\ pc \notin {"wake", "exited"}) =>
          (~blanked /\ overlay = NoOverlay))

\* The wake sequence has run, the destroy failed and left the window mapped.
C16_Witness ==
  /\ pc = "process"
  /\ ~blanked
  /\ overlay = NoOverlay
  /\ mapped
  /\ trace = ClaimedWakeOrder

\* C17: when the daemon was woken by a button press on the overlay and the button is
\* released after the overlay removal, the release is delivered to the overlay, not
\* to the application.
C17_LongPressReleaseSwallowed ==
  [][(/\ wakeEvent = XEvent("ButtonPress", TRUE)
      /\ delivered = 1
      /\ Count(trace, "destroy") = 1
      /\ Len(xsock') = Len(xsock) + 1
      /\ xsock'[Len(xsock')].kind = "ButtonRelease")
       => xsock'[Len(xsock')].onOverlay]_vars

\* C18: the daemon starts blanking only when at least timeout seconds have passed
\* since the most recent user input anywhere on the system.
C18_NoPrematureBlank ==
  pc = "blank" => now - lastInput >= timeout

\* C19: the daemon never blocks Blanked in the unbounded wait with nothing to read on
\* the descriptor while a qualifying event sits in the client-side event queue.
C19_NoLostWakeup ==
  ~(/\ pc = "select"
    /\ blanked
    /\ wait = None
    /\ xsock = <<>>
    /\ \E i \in 1..Len(xqueue) :
         \/ xqueue[i].kind \in {"KeyPress", "KeyRelease", "ButtonPress",
                                "ButtonRelease", "MotionNotify"}
         \/ (xi2_raw_enabled
               /\ xqueue[i].kind \in {"RawButtonPress", "RawTouchBegin", "RawKeyPress"}))

\* C20: the power commands alternate, starting with power-off, failed or not.  The
\* trace holds the commands since the last wake began: before the first wake at most
\* one power-off; afterwards a power-on first and then at most one power-off; and a
\* wake begins only when the last command issued was a power-off.
PowerCommands == SelectSeq(trace, LAMBDA c : c \in {"power_on", "off"})

C20_PowerCommandsAlternate ==
  /\ [](PowerCommands \in
          (IF wakeEvent = NoEvent
             THEN {<<>>, <<"off">>}
             ELSE {<<>>, <<"power_on">>, <<"power_on", "off">>}))
  /\ [][(pc = "process" /\ pc' = "wake") =>
          (PowerCommands # <<>> /\ PowerCommands[Len(PowerCommands)] = "off")]_vars

\* A power-on and a following power-off were issued, and the power-off failed.
C20_Witness ==
  /\ PowerCommands = <<"power_on", "off">>
  /\ dpms = "on"
  /\ blanked

====
